---- MODULE Spec2Model ----
(***************************************************************************)
(* Model of the Elysia OpenTelemetry plugin (src/src/index.ts): the wrap   *)
(* step that starts the root span of a request, the trace handler that     *)
(* builds the span tree from the lifecycle signals of the framework, and   *)
(* the context objects the tracing API hands to the code of a request.     *)
(*                                                                         *)
(* A span is referred to by <<r, k>>: the k-th span started for request r. *)
(* <<0, t>> with t > 0 is the remote parent span carried by a traceparent  *)
(* header with trace ID t, and <<0, 0>> is "no span".                      *)
(***************************************************************************)
EXTENDS Integers, Sequences, FiniteSets, TLC

\* ------------------------------------------------------------------ bounds
\* MaxSize bounds a run: requests accepted, plus phases that report
\* sub-events, plus calls of the request-scoped API.
\* MaxTotal bounds the sub-events one phase reports.
MaxSize == 2
MaxTotal == 2

\* MaxSetups bounds the opentelemetry() calls made in one process.
MaxSetups == 2

Reqs == 1..MaxSize

\* ------------------------------------------------------- program constants
RootContext == 0
RemoteTrace == 90

Unset == "UNSET"
Ok == "OK"
Error == "ERROR"

Phases ==
    <<"request", "parse", "transform", "beforeHandle", "handle",
      "afterHandle", "error", "mapResponse", "afterResponse">>

HandleIx == 5
ErrorIx == 7
AfterResponseIx == 9

MapResponseIx == 8

InspectIx == {1, 2, 3, 4, 6, 7, 8}

NoSpan == <<0, 0>>
NoHeader == 0
Undefined == -1

VARIABLES
    entered,      \* number of requests the server has accepted so far
    header,       \* header[r]: trace ID of the traceparent header, 0 if none
    nextTrace,    \* source of fresh (random) trace IDs
    ctxSpan,      \* ctxSpan[c]: the SPAN entry of context object c
    active,       \* active[r]: the context object the code of r runs in
    spans,        \* spans[r]: the spans started for request r, in order
    rootSpan,     \* rootSpan[r]: the trace handler's rootSpan
    parent,       \* parent[r]: the trace handler's parent
    pc,           \* pc[r]: where request r is in its lifecycle
    pos,          \* pos[r]: index in Phases of the last phase reported
    total,        \* total[r]: sub-events of the phase in progress
    begun,        \* begun[r]: sub-events of that phase begun so far
    event,        \* event[r]: the phase span, 0 if the phase was skipped
    cur,          \* cur[r]: the sub-event or handle span in progress
    failed,       \* failed[r]: an error was thrown while handling r
    handled,      \* handled[r]: "none", "ok" or "threw"
    responded,    \* responded[r]: the response went back to the caller
    work,         \* phases that reported sub-events and calls of the
                  \* request-scoped API so far, all requests
    seenAborted,  \* seenAborted[r]: requests already aborted when r arrived
    call,         \* the call of an active-span helper under study
    hpc,          \* where that call is: "off", "start", "pending", "done"
    hspan,        \* the span the helper started for the call
    hout,         \* what the caller of the helper got back
    api,          \* the process-wide OpenTelemetry API state at plugin setup
    setups,       \* the opentelemetry() calls made so far, in order
    arg,          \* the input of the function under study
    ret           \* what that function produced

helperVars == <<call, hpc, hspan, hout>>

setupVars == <<api, setups>>

fnVars == <<arg, ret>>

builderVars ==
    <<entered, header, nextTrace, ctxSpan, active, spans, rootSpan, parent,
      pc, pos, total, begun, event, cur, failed, handled, responded, work,
      seenAborted>>

vars ==
    <<entered, header, nextTrace, ctxSpan, active, spans, rootSpan, parent,
      pc, pos, total, begun, event, cur, failed, handled, responded, work,
      seenAborted, call, hpc, hspan, hout, api, setups, arg, ret>>

\* ------------------------------------------------------------------- spans
Ref(r, k) == <<r, k>>

SpanAt(S, ref) == S[ref[1]][ref[2]]

\* spanContext().traceId of a local span, a remote parent, or of no span
TraceIdOf(S, ref) ==
    IF ref = NoSpan THEN 0
    ELSE IF ref[1] = 0 THEN ref[2]
    ELSE SpanAt(S, ref).traceId

\* orphan: the span was started when its parent span had already ended;
\* outlived: the span was ended after its parent span had ended;
\* attrs: attributes were written through context.trace.setAttributes;
\* errorAttrs: the span carries error.type and error.stack;
\* flushes, flushed: the bulk setAttributes calls of onAfterResponse and the
\* keys they wrote.
NewSpan(name, kind, parentRef, traceId) ==
    [name |-> name, kind |-> kind, parent |-> parentRef,
     traceId |-> traceId, recording |-> TRUE, status |-> Unset,
     exception |-> FALSE, ends |-> 0, late |-> FALSE,
     orphan |-> FALSE, outlived |-> FALSE, attrs |-> FALSE,
     errorAttrs |-> FALSE, flushes |-> 0, flushed |-> {}]

\* a span of this process that has ended
Closed(S, ref) == ref[1] # 0 /\ ~SpanAt(S, ref).recording

\* tracer.startSpan(name, {}, ctx): the parent is the span ctx reports for
\* the span key; without a parent the span opens a new trace.
TracerStartSpan(S, r, name, kind, parentRef, fresh) ==
    [S EXCEPT ![r] = Append(@,
        [NewSpan(name, kind, parentRef,
                 IF parentRef = NoSpan THEN fresh ELSE TraceIdOf(S, parentRef))
         EXCEPT !.orphan = Closed(S, parentRef)])]

LastRef(S, r) == Ref(r, Len(S[r]))

\* span.setStatus: ignored (and reported) once the span has ended
SpanSetStatus(S, ref, st) ==
    IF SpanAt(S, ref).recording
    THEN [S EXCEPT ![ref[1]][ref[2]].status = st]
    ELSE [S EXCEPT ![ref[1]][ref[2]].late = TRUE]

\* span.setAttributes(attributes) with the attributes of the caller
SpanSetAttributes(S, ref) ==
    IF SpanAt(S, ref).recording
    THEN [S EXCEPT ![ref[1]][ref[2]].attrs = TRUE]
    ELSE [S EXCEPT ![ref[1]][ref[2]].late = TRUE]

\* span.setAttributes({'error.type': ..., 'error.stack': ...})
SpanSetErrorAttributes(S, ref) ==
    IF SpanAt(S, ref).recording
    THEN [S EXCEPT ![ref[1]][ref[2]].errorAttrs = TRUE]
    ELSE [S EXCEPT ![ref[1]][ref[2]].late = TRUE]

\* rootSpan.setAttributes(attributes) with the attribute map of the request
SpanFlush(S, ref, keys) ==
    IF SpanAt(S, ref).recording
    THEN [S EXCEPT ![ref[1]][ref[2]].flushes = IF @ < 2 THEN @ + 1 ELSE @,
                   ![ref[1]][ref[2]].flushed = @ \cup keys]
    ELSE [S EXCEPT ![ref[1]][ref[2]].late = TRUE]

\* span.updateName(name)
SpanUpdateName(S, ref, name) ==
    IF SpanAt(S, ref).recording
    THEN [S EXCEPT ![ref[1]][ref[2]].name = name]
    ELSE [S EXCEPT ![ref[1]][ref[2]].late = TRUE]

SpanRecordException(S, ref) ==
    IF SpanAt(S, ref).recording
    THEN [S EXCEPT ![ref[1]][ref[2]].exception = TRUE]
    ELSE [S EXCEPT ![ref[1]][ref[2]].late = TRUE]

\* span.end(): counts every call; only the first one closes the span
SpanEnd(S, ref) ==
    [S EXCEPT ![ref[1]][ref[2]].recording = FALSE,
              ![ref[1]][ref[2]].ends = IF @ < 2 THEN @ + 1 ELSE @,
              ![ref[1]][ref[2]].outlived =
                  @ \/ (SpanAt(S, ref).recording
                          /\ Closed(S, SpanAt(S, ref).parent))]

\* if (span.isRecording()) span.end()
SpanEndIfRecording(S, ref) ==
    IF SpanAt(S, ref).recording THEN SpanEnd(S, ref) ELSE S

\* ---------------------------------------------------------------- contexts
\* A context is [id, span]: the identity of the object and its SPAN entry.
ContextActive(c) == [id |-> c, span |-> ctxSpan[c]]

\* The inbound Request object handed to propagation.extract as the carrier.
RequestCarrier(h) ==
    [method |-> "GET", url |-> "/", headers |-> [traceparent |-> h]]

\* defaultTextMapGetter.get(carrier, key): carrier[key]
TextMapGet(carrier, key) ==
    IF key \in DOMAIN carrier THEN carrier[key] ELSE Undefined

\* propagation.extract(ctx, carrier): without a traceparent value the very
\* same context comes back; with one, a new context holding the remote span.
PropagationExtract(ctx, carrier, freshId) ==
    LET tp == TextMapGet(carrier, "traceparent")
    IN  IF tp = Undefined \/ tp = NoHeader
        THEN ctx
        ELSE [id |-> freshId, span |-> <<0, tp>>]

\* a setSpan that writes into the context it was given
TraceSetSpanInPlace(ctx, span, freshId) == [id |-> ctx.id, span |-> span]

\* trace.setSpan(ctx, span): a new context object, ctx itself is untouched
TraceSetSpan(ctx, span, freshId) == [id |-> freshId, span |-> span]

\* a carrier whose getValue reports no span
CreateContextGetValueNone(p) == NoSpan

\* createContext(parent).getValue()
CreateContextGetValue(p) == p

\* ------------------------------------------------------------ initial state
BuilderInit ==
    /\ entered = 0
    /\ header = [r \in Reqs |-> NoHeader]
    /\ nextTrace = 1
    /\ ctxSpan = [c \in 0..(2 * MaxSize) |-> NoSpan]
    /\ active = [r \in Reqs |-> RootContext]
    /\ spans = [r \in Reqs |-> <<>>]
    /\ rootSpan = [r \in Reqs |-> NoSpan]
    /\ parent = [r \in Reqs |-> NoSpan]
    /\ pc = [r \in Reqs |-> "idle"]
    /\ pos = [r \in Reqs |-> 0]
    /\ total = [r \in Reqs |-> 0]
    /\ begun = [r \in Reqs |-> 0]
    /\ event = [r \in Reqs |-> 0]
    /\ cur = [r \in Reqs |-> 0]
    /\ failed = [r \in Reqs |-> FALSE]
    /\ handled = [r \in Reqs |-> "none"]
    /\ responded = [r \in Reqs |-> FALSE]
    /\ work = 0
    /\ seenAborted = [r \in Reqs |-> {}]

\* no call of an active-span helper is under study
NoCall == [entry |-> "none"]

NoOutcome == [kind |-> "none"]

\* no plugin setup and no function is under study
SetupOff == api = NoCall /\ setups = <<>>

FnOff == arg = NoCall /\ ret = NoOutcome

Init ==
    /\ BuilderInit
    /\ call = NoCall
    /\ hpc = "off"
    /\ hspan = NoCall
    /\ hout = NoOutcome
    /\ SetupOff
    /\ FnOff

\* --------------------------------------------------- the builder's closures
\* function setParent(span): writes the span into the map of the context
\* that is active for the request and into the parent variable.
\* a setParent that writes into the root context
SetParentContextRoot(C, r, ref) == [C EXCEPT ![RootContext] = ref]

\* a setParent that writes into a map every context shares
SetParentContextShared(C, r, ref) == [c \in DOMAIN C |-> ref]

\* a setParent that builds the new context with trace.setSpan and leaves the
\* map of the active context as it is
SetParentContextCopy(C, r, ref) == C

SetParentContext(C, r, ref) == [C EXCEPT ![active[r]] = ref]

\* a setParent that leaves the parent variable alone
SetParentPointerKeep(P, r, ref) == P

SetParentPointer(P, r, ref) == [P EXCEPT ![r] = ref]

\* an inspect without the guard
InspectSkipsNever(n) == FALSE

\* inspect: if (total === 0) return
InspectSkips(n) == n = 0

\* an inspect that starts the phase span under the parent pointer
InspectStartUnderParent(S, r, name) ==
    TracerStartSpan(S, r, name, "phase",
                    CreateContextGetValue(parent[r]), nextTrace)

\* inspect(name): the phase span, a child of rootSpan through createContext
InspectStart(S, r, name) ==
    TracerStartSpan(S, r, name, "phase",
                    CreateContextGetValue(rootSpan[r]), nextTrace)

\* onEvent callback: the sub-event span, a child of the phase span
OnEventStart(S, r) ==
    TracerStartSpan(S, r, "hook", "sub",
                    CreateContextGetValue(Ref(r, event[r])), nextTrace)

\* an error branch that ends the root span where the code ends the phase span
OnEventStopEndsRoot(S, r, err) ==
    LET root == rootSpan[r]
        span == Ref(r, cur[r])
    IN  IF err
        THEN SpanEnd(
               SpanEnd(
                 SpanSetStatus(
                   SpanSetErrorAttributes(SpanSetStatus(S, root, Error), span),
                   span, Error),
                 root),
               span)
        ELSE SpanEnd(SpanSetStatus(SpanSetStatus(S, root, Ok), span, Ok),
                     span)

\* an error branch that marks the root span only
OnEventStopRootOnly(S, r, err) ==
    LET root == rootSpan[r]
        span == Ref(r, cur[r])
        ev   == Ref(r, event[r])
    IN  IF err
        THEN SpanEnd(SpanEnd(SpanSetStatus(S, root, Error), ev), span)
        ELSE SpanEnd(SpanSetStatus(SpanSetStatus(S, root, Ok), span, Ok),
                     span)

\* the callback a sub-event's onStop runs, with or without an error
OnEventStop(S, r, err) ==
    LET root == rootSpan[r]
        span == Ref(r, cur[r])
        ev   == Ref(r, event[r])
    IN  IF err
        THEN SpanEnd(
               SpanEnd(
                 SpanSetStatus(
                   SpanSetErrorAttributes(SpanSetStatus(S, root, Error), span),
                   span, Error),
                 ev),
               span)
        ELSE SpanEnd(SpanSetStatus(SpanSetStatus(S, root, Ok), span, Ok),
                     span)

\* a phase onStop that ends nothing
InspectStopNothing(S, r) == S

\* the callback the phase's onStop runs: if (event.isRecording()) event.end()
InspectStop(S, r) ==
    IF event[r] = 0 THEN S ELSE SpanEndIfRecording(S, Ref(r, event[r]))

\* an onHandle that starts the handle span under the parent pointer
OnHandleStartUnderParent(S, r) ==
    TracerStartSpan(S, r, "handle", "handle",
                    CreateContextGetValue(parent[r]), nextTrace)

\* onHandle: the handle span, a child of rootSpan
OnHandleStart(S, r) ==
    TracerStartSpan(S, r, "handle", "handle",
                    CreateContextGetValue(rootSpan[r]), nextTrace)

\* an onStop of onHandle that leaves the handle span open on success
OnHandleStopOpen(S, r, err) ==
    LET root == rootSpan[r]
        span == Ref(r, cur[r])
    IN  IF err
        THEN SpanEnd(SpanSetStatus(SpanSetStatus(S, root, Error), span, Error),
                     span)
        ELSE SpanSetStatus(SpanSetStatus(S, root, Ok), span, Ok)

\* the callback onHandle's onStop runs
OnHandleStop(S, r, err) ==
    LET root == rootSpan[r]
        span == Ref(r, cur[r])
    IN  IF err
        THEN SpanEnd(
               SpanRecordException(
                 SpanRecordException(
                   SpanSetStatus(SpanSetStatus(S, root, Error), span, Error),
                   span),
                 root),
               span)
        ELSE SpanEnd(SpanSetStatus(SpanSetStatus(S, root, Ok), span, Ok),
                     span)

\* context.request.method, context.route and context.path of request r:
\* odd requests match no route, even ones the route /item/:id
Method(r) == "GET"

Route(r) == IF r % 2 = 1 THEN "" ELSE "/item/:id"

Path(r) == IF r % 2 = 1 THEN "/missing" ELSE "/item/7"

\* context.route || context.path
RouteOrPath(r) == IF Route(r) # "" THEN Route(r) ELSE Path(r)

\* the attribute map as the trace handler seeds it at request entry
SeedAttributes ==
    {"http.request.id", "http.request.method", "url.path", "url.full"}

\* the keys onAfterResponse adds for every request
HarvestedAttributes(r) ==
    {"http.response.status_code"}
      \cup (IF Route(r) # "" THEN {"http.route"} ELSE {})

\* an onAfterResponse that flushes the map before it harvests
OnAfterResponseFlushSeed(S, r) == SpanFlush(S, rootSpan[r], SeedAttributes)

\* onAfterResponse: rootSpan.setAttributes(attributes) after the harvest
OnAfterResponseFlush(S, r) ==
    SpanFlush(S, rootSpan[r], SeedAttributes \cup HarvestedAttributes(r))

\* the callback onAfterResponse registers on the phase's onStop, after the
\* one inspect registered: updateName and end of the root span
AfterResponseStopRoot(S, r) ==
    SpanEnd(SpanUpdateName(S, rootSpan[r],
                           Method(r) \o " " \o RouteOrPath(r)),
            rootSpan[r])

\* ------------------------------------------------- the request-scoped API
\* the forms of context.trace.startActiveSpan: args.length
Forms == {2, 3, 4}

\* the context objects: ROOT_CONTEXT, one bound context per request, and one
\* per request for a context propagation.extract creates
Contexts == 0..(2 * MaxSize)

\* the contexts a caller passes as third argument of the 4-argument form:
\* ROOT_CONTEXT or the context that is active for the request
CallerContexts(r) == {RootContext, active[r]}

\* a startActiveSpan whose forms all start under the root span
ActiveSpanParentRoot(r, n, c) == IF n = 4 THEN ctxSpan[c] ELSE rootSpan[r]

\* context.trace.startActiveSpan: the span the new span is a child of; the
\* 2- and 3-argument forms pass createContext(parent), the 4-argument form
\* passes args[2], the context of the caller
ActiveSpanParent(r, n, c) ==
    IF n = 4 THEN ctxSpan[c] ELSE CreateContextGetValue(parent[r])

\* context.trace.startSpan(name)
TraceStartSpanSpans(S, r) ==
    TracerStartSpan(S, r, "startSpan", "user",
                    CreateContextGetValue(parent[r]), nextTrace)

\* context.trace.startActiveSpan with work that returns: the span is started
\* and the active-span helper ends it
TraceStartActiveSpanSpans(S, r, n, c) ==
    LET S1 == TracerStartSpan(S, r, "startActiveSpan", "user",
                              ActiveSpanParent(r, n, c), nextTrace)
    IN  SpanEndIfRecording(S1, LastRef(S1, r))

\* context.trace.setAttributes(attributes): rootSpan.setAttributes
TraceSetAttributesSpans(S, r) == SpanSetAttributes(S, rootSpan[r])

\* a trace handler without the guard
NoRootSpanNever(rs) == FALSE

\* trace handler: if (!rootSpan) return
NoRootSpan(rs) == rs = NoSpan

\* ----------------------------------------------------------------- actions
\* wrap + trace handler: the server accepts request r carrying header h.
Enter(r, h) ==
    /\ pc[r] = "idle"
    /\ r = entered + 1
    /\ entered + work < MaxSize
    /\ LET ctx   == PropagationExtract(ContextActive(RootContext),
                                       RequestCarrier(h), MaxSize + r)
           S1    == TracerStartSpan(spans, r, "request", "root", ctx.span,
                                    nextTrace)
           bound == TraceSetSpan(ctx, LastRef(S1, r), r)
           C1    == [ctxSpan EXCEPT ![ctx.id] = ctx.span,
                                    ![bound.id] = bound.span]
           rs    == C1[bound.id]
       IN  /\ spans' = S1
           /\ ctxSpan' = C1
           /\ active' = [active EXCEPT ![r] = bound.id]
           /\ nextTrace' = IF ctx.span = NoSpan THEN nextTrace + 1
                           ELSE nextTrace
           /\ rootSpan' = [rootSpan EXCEPT ![r] = rs]
           /\ parent' = [parent EXCEPT ![r] = rs]
           /\ pc' = [pc EXCEPT ![r] = IF NoRootSpan(rs) THEN "untraced"
                                      ELSE "ready"]
    /\ entered' = entered + 1
    /\ header' = [header EXCEPT ![r] = h]
    /\ seenAborted' =
         [seenAborted EXCEPT ![r] = {a \in Reqs : pc[a] = "aborted"}]
    /\ UNCHANGED <<pos, total, begun, event, cur, failed, handled,
                   responded, work>>
    /\ UNCHANGED <<helperVars, setupVars, fnVars>>

\* the trace handler runs for a request the wrap step did not intercept:
\* the code of r runs in the root context, trace.getActiveSpan() reports no
\* span and the handler returns before it registers any listener
EnterUnwrapped(r) ==
    /\ pc[r] = "idle"
    /\ r = entered + 1
    /\ entered + work < MaxSize
    /\ LET rs == ContextActive(RootContext).span
       IN  /\ rootSpan' = [rootSpan EXCEPT ![r] = rs]
           /\ parent' = [parent EXCEPT ![r] = rs]
           /\ pc' = [pc EXCEPT ![r] = IF NoRootSpan(rs) THEN "untraced"
                                      ELSE "ready"]
    /\ entered' = entered + 1
    /\ seenAborted' =
         [seenAborted EXCEPT ![r] = {a \in Reqs : pc[a] = "aborted"}]
    /\ UNCHANGED <<header, nextTrace, ctxSpan, active, spans, pos, total,
                   begun, event, cur, failed, handled, responded, work>>
    /\ UNCHANGED <<helperVars, setupVars, fnVars>>

\* the phase the framework reports next for request r: the lifecycle order,
\* the error phase only on the error path
NextIx(r) ==
    IF failed[r] /\ pos[r] < ErrorIx THEN ErrorIx
    ELSE IF pos[r] = ErrorIx - 1 THEN MapResponseIx
    ELSE pos[r] + 1

\* the framework reports the next phase of r, with n sub-events
PhaseBegin(r, n) ==
    /\ pc[r] = "ready"
    /\ NextIx(r) \in InspectIx
    /\ ~responded[r]
    /\ n > 0 => entered + work < MaxSize
    /\ pos' = [pos EXCEPT ![r] = NextIx(r)]
    /\ IF InspectSkips(n)
       THEN UNCHANGED <<spans, pc, total, begun, event, work>>
       ELSE /\ spans' = InspectStart(spans, r, Phases[NextIx(r)])
            /\ event' = [event EXCEPT ![r] = Len(spans'[r])]
            /\ total' = [total EXCEPT ![r] = n]
            /\ begun' = [begun EXCEPT ![r] = 0]
            /\ work' = work + 1
            /\ pc' = [pc EXCEPT ![r] = "inPhase"]
    /\ UNCHANGED <<entered, header, nextTrace, ctxSpan, active, rootSpan,
                   parent, cur, failed, handled, responded, seenAborted>>
    /\ UNCHANGED <<helperVars, setupVars, fnVars>>

\* a sub-event of the phase in progress begins
ChildBegin(r) ==
    /\ pc[r] = "inPhase"
    /\ begun[r] < total[r]
    /\ spans' = OnEventStart(spans, r)
    /\ cur' = [cur EXCEPT ![r] = Len(spans'[r])]
    /\ ctxSpan' = SetParentContext(ctxSpan, r, LastRef(spans', r))
    /\ parent' = SetParentPointer(parent, r, LastRef(spans', r))
    /\ begun' = [begun EXCEPT ![r] = @ + 1]
    /\ pc' = [pc EXCEPT ![r] = "inChild"]
    /\ UNCHANGED <<entered, header, nextTrace, active, rootSpan, pos, total,
                   event, failed, handled, responded, work, seenAborted>>
    /\ UNCHANGED <<helperVars, setupVars, fnVars>>

\* the sub-event stops; err: it stops with an error the hook returned
ChildStop(r, err) ==
    /\ pc[r] = "inChild"
    /\ spans' = OnEventStop(spans, r, err)
    /\ cur' = [cur EXCEPT ![r] = 0]
    /\ pc' = [pc EXCEPT ![r] = "inPhase"]
    /\ UNCHANGED <<entered, header, nextTrace, ctxSpan, active, rootSpan,
                   parent, pos, total, begun, event, failed, handled,
                   responded, work, seenAborted>>
    /\ UNCHANGED <<helperVars, setupVars, fnVars>>

\* the phase stops (phases other than afterResponse)
PhaseStop(r) ==
    /\ pc[r] = "inPhase"
    /\ pos[r] # AfterResponseIx
    /\ spans' = InspectStop(spans, r)
    /\ total' = [total EXCEPT ![r] = 0]
    /\ begun' = [begun EXCEPT ![r] = 0]
    /\ event' = [event EXCEPT ![r] = 0]
    /\ pc' = [pc EXCEPT ![r] = "ready"]
    /\ UNCHANGED <<entered, header, nextTrace, ctxSpan, active, rootSpan,
                   parent, pos, cur, failed, handled, responded, work,
                   seenAborted>>
    /\ UNCHANGED <<helperVars, setupVars, fnVars>>

\* the hook in progress throws: the framework stops the phase with the
\* error and then the sub-event with the same error, and takes the error path
Throw(r) ==
    /\ pc[r] = "inChild"
    /\ LET S1 == InspectStop(spans, r)
           S2 == IF pos[r] = AfterResponseIx
                 THEN AfterResponseStopRoot(S1, r) ELSE S1
       IN  spans' = OnEventStop(S2, r, TRUE)
    /\ IF pos[r] = AfterResponseIx
       THEN /\ ctxSpan' = SetParentContext(ctxSpan, r, rootSpan[r])
            /\ parent' = SetParentPointer(parent, r, rootSpan[r])
            /\ pc' = [pc EXCEPT ![r] = "closed"]
       ELSE /\ UNCHANGED <<ctxSpan, parent>>
            /\ pc' = [pc EXCEPT ![r] = "ready"]
    /\ failed' = [failed EXCEPT ![r] = TRUE]
    /\ total' = [total EXCEPT ![r] = 0]
    /\ begun' = [begun EXCEPT ![r] = 0]
    /\ event' = [event EXCEPT ![r] = 0]
    /\ cur' = [cur EXCEPT ![r] = 0]
    /\ UNCHANGED <<entered, header, nextTrace, active, rootSpan, pos,
                   handled, responded, work, seenAborted>>
    /\ UNCHANGED <<helperVars, setupVars, fnVars>>

\* an onHandle that starts the handle span without calling setParent
HandleBeginNoSetParent(r) ==
    /\ pc[r] = "ready"
    /\ NextIx(r) = HandleIx
    /\ spans' = OnHandleStart(spans, r)
    /\ cur' = [cur EXCEPT ![r] = Len(spans'[r])]
    /\ pos' = [pos EXCEPT ![r] = HandleIx]
    /\ pc' = [pc EXCEPT ![r] = "inHandle"]
    /\ UNCHANGED <<entered, header, nextTrace, ctxSpan, active, rootSpan,
                   parent, total, begun, event, failed, handled, responded,
                   work, seenAborted>>
    /\ UNCHANGED <<helperVars, setupVars, fnVars>>

\* the framework enters the route handler
HandleBegin(r) ==
    /\ pc[r] = "ready"
    /\ NextIx(r) = HandleIx
    /\ spans' = OnHandleStart(spans, r)
    /\ cur' = [cur EXCEPT ![r] = Len(spans'[r])]
    /\ ctxSpan' = SetParentContext(ctxSpan, r, LastRef(spans', r))
    /\ parent' = SetParentPointer(parent, r, LastRef(spans', r))
    /\ pos' = [pos EXCEPT ![r] = HandleIx]
    /\ pc' = [pc EXCEPT ![r] = "inHandle"]
    /\ UNCHANGED <<entered, header, nextTrace, active, rootSpan, total,
                   begun, event, failed, handled, responded, work,
                   seenAborted>>
    /\ UNCHANGED <<helperVars, setupVars, fnVars>>

\* the route handler returns (err = FALSE) or throws (err = TRUE)
HandleStop(r, err) ==
    /\ pc[r] = "inHandle"
    /\ spans' = OnHandleStop(spans, r, err)
    /\ handled' = [handled EXCEPT ![r] = IF err THEN "threw" ELSE "ok"]
    /\ failed' = [failed EXCEPT ![r] = err]
    /\ cur' = [cur EXCEPT ![r] = 0]
    /\ pc' = [pc EXCEPT ![r] = "ready"]
    /\ UNCHANGED <<entered, header, nextTrace, ctxSpan, active, rootSpan,
                   parent, pos, total, begun, event, responded, work,
                   seenAborted>>
    /\ UNCHANGED <<helperVars, setupVars, fnVars>>

\* the response goes back to the caller; afterResponse follows it
Respond(r) ==
    /\ pc[r] = "ready"
    /\ pos[r] = MapResponseIx
    /\ ~responded[r]
    /\ responded' = [responded EXCEPT ![r] = TRUE]
    /\ UNCHANGED <<entered, header, nextTrace, ctxSpan, active, spans,
                   rootSpan, parent, pc, pos, total, begun, event, cur,
                   failed, handled, work, seenAborted>>
    /\ UNCHANGED <<helperVars, setupVars, fnVars>>

\* onAfterResponse: inspect('afterResponse'), the attribute harvest flushed
\* to the root span, and the registration of the root span's end
AfterResponseBegin(r, n) ==
    /\ pc[r] = "ready"
    /\ responded[r]
    /\ n > 0 => entered + work < MaxSize
    /\ pos' = [pos EXCEPT ![r] = AfterResponseIx]
    /\ LET S1 == IF InspectSkips(n) THEN spans
                 ELSE InspectStart(spans, r, Phases[AfterResponseIx])
       IN  /\ spans' = OnAfterResponseFlush(S1, r)
           /\ event' = [event EXCEPT ![r] = IF InspectSkips(n) THEN 0
                                            ELSE Len(S1[r])]
    /\ total' = [total EXCEPT ![r] = IF InspectSkips(n) THEN 0 ELSE n]
    /\ begun' = [begun EXCEPT ![r] = 0]
    /\ work' = IF InspectSkips(n) THEN work ELSE work + 1
    /\ pc' = [pc EXCEPT ![r] = "inPhase"]
    /\ UNCHANGED <<entered, header, nextTrace, ctxSpan, active, rootSpan,
                   parent, cur, failed, handled, responded, seenAborted>>
    /\ UNCHANGED <<helperVars, setupVars, fnVars>>

\* an afterResponse stop in which only the callback of onAfterResponse runs
AfterResponseStopRootOnly(r) ==
    /\ pc[r] = "inPhase"
    /\ pos[r] = AfterResponseIx
    /\ spans' = AfterResponseStopRoot(spans, r)
    /\ ctxSpan' = SetParentContext(ctxSpan, r, rootSpan[r])
    /\ parent' = SetParentPointer(parent, r, rootSpan[r])
    /\ total' = [total EXCEPT ![r] = 0]
    /\ begun' = [begun EXCEPT ![r] = 0]
    /\ event' = [event EXCEPT ![r] = 0]
    /\ pc' = [pc EXCEPT ![r] = "closed"]
    /\ UNCHANGED <<entered, header, nextTrace, active, rootSpan, pos, cur,
                   failed, handled, responded, work, seenAborted>>
    /\ UNCHANGED <<helperVars, setupVars, fnVars>>

\* afterResponse stops: inspect's callback, then setParent(rootSpan),
\* updateName and the end of the root span
AfterResponseStop(r) ==
    /\ pc[r] = "inPhase"
    /\ pos[r] = AfterResponseIx
    /\ spans' = AfterResponseStopRoot(InspectStop(spans, r), r)
    /\ ctxSpan' = SetParentContext(ctxSpan, r, rootSpan[r])
    /\ parent' = SetParentPointer(parent, r, rootSpan[r])
    /\ total' = [total EXCEPT ![r] = 0]
    /\ begun' = [begun EXCEPT ![r] = 0]
    /\ event' = [event EXCEPT ![r] = 0]
    /\ pc' = [pc EXCEPT ![r] = "closed"]
    /\ UNCHANGED <<entered, header, nextTrace, active, rootSpan, pos, cur,
                   failed, handled, responded, work, seenAborted>>
    /\ UNCHANGED <<helperVars, setupVars, fnVars>>

\* the request is aborted while a hook or the handler is pending: its
\* asynchronous work never completes and no further signal is fired for it
Abort(r) ==
    /\ pc[r] \in {"inChild", "inHandle"}
    /\ pc' = [pc EXCEPT ![r] = "aborted"]
    /\ UNCHANGED <<entered, header, nextTrace, ctxSpan, active, spans,
                   rootSpan, parent, pos, total, begun, event, cur, failed,
                   handled, responded, work, seenAborted>>
    /\ UNCHANGED <<helperVars, setupVars, fnVars>>

\* a hook or the handler of r is running
Suspended(r) == pc[r] \in {"inChild", "inHandle"}

\* user code of r (a hook or the handler) calls context.trace.startSpan
TraceStartSpan(r) ==
    /\ Suspended(r)
    /\ entered + work < MaxSize
    /\ spans' = TraceStartSpanSpans(spans, r)
    /\ work' = work + 1
    /\ UNCHANGED <<entered, header, nextTrace, ctxSpan, active, rootSpan,
                   parent, pc, pos, total, begun, event, cur, failed,
                   handled, responded, seenAborted>>
    /\ UNCHANGED <<helperVars, setupVars, fnVars>>

\* user code of r calls context.trace.startActiveSpan in its n-argument
\* form; c is the context passed in the 4-argument form
TraceStartActiveSpan(r, n, c) ==
    /\ Suspended(r)
    /\ c \in CallerContexts(r)
    /\ entered + work < MaxSize
    /\ spans' = TraceStartActiveSpanSpans(spans, r, n, c)
    /\ nextTrace' = IF ActiveSpanParent(r, n, c) = NoSpan
                    THEN nextTrace + 1 ELSE nextTrace
    /\ work' = work + 1
    /\ UNCHANGED <<entered, header, ctxSpan, active, rootSpan, parent, pc,
                   pos, total, begun, event, cur, failed, handled,
                   responded, seenAborted>>
    /\ UNCHANGED <<helperVars, setupVars, fnVars>>

\* user code of r calls context.trace.setAttributes
TraceSetAttributes(r) ==
    /\ Suspended(r)
    /\ entered + work < MaxSize
    /\ spans' = TraceSetAttributesSpans(spans, r)
    /\ work' = work + 1
    /\ UNCHANGED <<entered, header, nextTrace, ctxSpan, active, rootSpan,
                   parent, pc, pos, total, begun, event, cur, failed,
                   handled, responded, seenAborted>>
    /\ UNCHANGED <<helperVars, setupVars, fnVars>>

Next ==
    \/ \E r \in Reqs, h \in {NoHeader, RemoteTrace} : Enter(r, h)
    \/ \E r \in Reqs : EnterUnwrapped(r)
    \/ \E r \in Reqs, n \in 0..MaxTotal : PhaseBegin(r, n)
    \/ \E r \in Reqs : ChildBegin(r)
    \/ \E r \in Reqs, err \in BOOLEAN : ChildStop(r, err)
    \/ \E r \in Reqs : PhaseStop(r)
    \/ \E r \in Reqs : Throw(r)
    \/ \E r \in Reqs : HandleBegin(r)
    \/ \E r \in Reqs, err \in BOOLEAN : HandleStop(r, err)
    \/ \E r \in Reqs : Respond(r)
    \/ \E r \in Reqs, n \in 0..MaxTotal : AfterResponseBegin(r, n)
    \/ \E r \in Reqs : AfterResponseStop(r)
    \/ \E r \in Reqs : Abort(r)
    \/ \E r \in Reqs : TraceStartSpan(r)
    \/ \E r \in Reqs, n \in Forms, c \in Contexts :
         TraceStartActiveSpan(r, n, c)
    \/ \E r \in Reqs : TraceSetAttributes(r)

Spec == Init /\ [][Next]_vars

\* ------------------------------------------------- the active-span helper
\* createActiveSpanHandler(fn), reached through startActiveSpan / record,
\* getTracer().startActiveSpan and context.trace.startActiveSpan.
Entries == {"record", "getTracer", "context.trace"}

Results == {"r1", "r2"}

Errors == {"e1", "e2"}

\* error.message
Message(e) == IF e = "e1" THEN "m1" ELSE "m2"

\* what fn does: it returns a value, throws, or returns a promise that is
\* fulfilled or rejected later; selfEnd: fn ends the span itself, in its
\* synchronous part ("early") or before its promise settles ("late")
Works ==
    {w \in [mode : {"return", "throw", "resolve", "reject"},
            value : Results \cup Errors,
            selfEnd : {"never", "early", "late"}] :
        /\ w.value \in Errors <=> w.mode \in {"throw", "reject"}
        /\ w.selfEnd = "late" => w.mode \in {"resolve", "reject"}}

\* the argument list of the n-argument form
ActiveSpanArgs(n, fn) ==
    IF n = 2 THEN <<"name", fn>>
    ELSE IF n = 3 THEN <<"name", "options", fn>>
    ELSE <<"name", "options", "context", fn>>

\* the span tracer.startActiveSpan hands to the handler
StartedSpan ==
    [recording |-> TRUE, status |-> Unset, message |-> "", exception |-> "",
     ends |-> 0, late |-> FALSE]

End(sp) ==
    [sp EXCEPT !.recording = FALSE, !.ends = IF @ < 2 THEN @ + 1 ELSE @]

SetStatus(sp, code, msg) ==
    IF sp.recording
    THEN [sp EXCEPT !.status = code, !.message = msg]
    ELSE [sp EXCEPT !.late = TRUE]

RecordException(sp, e) ==
    IF sp.recording
    THEN [sp EXCEPT !.exception = e]
    ELSE [sp EXCEPT !.late = TRUE]

\* a synchronous path that returns without ending the span
OnReturnOpen(sp) == sp

\* the synchronous path: if (span.isRecording()) span.end()
OnReturn(sp) == IF sp.recording THEN End(sp) ELSE sp

\* a thenable path that ends the span at once
OnThenableEnds(sp) == End(sp)

\* the thenable path: result.then(...) is returned, the span is not touched
OnThenable(sp) == sp

\* the then callback: if (span.isRecording()) span.end()
OnFulfilled(sp) == IF sp.recording THEN End(sp) ELSE sp

\* a catch block that does not record the exception
OnCatchNoRecord(sp, e) ==
    IF ~sp.recording THEN sp
    ELSE End(SetStatus(sp, Error, Message(e)))

\* a catch block without the isRecording guard
OnCatchUnguarded(sp, e) ==
    End(RecordException(SetStatus(sp, Error, Message(e)), e))

\* the catch block
OnCatch(sp, e) ==
    IF ~sp.recording THEN sp
    ELSE End(RecordException(SetStatus(sp, Error, Message(e)), e))

\* the synchronous part of fn(span)
FnSync(sp, fn) == IF fn.selfEnd = "early" THEN End(sp) ELSE sp

\* what fn(span) does before its promise settles
FnAsync(sp, fn) == IF fn.selfEnd = "late" THEN End(sp) ELSE sp

\* createActiveSpanHandler(fn)(span): the span afterwards, and what the
\* caller gets: the value, the error thrown, or a pending promise
CreateActiveSpanHandler(fn, sp) ==
    LET s1 == FnSync(sp, fn)
    IN  IF fn.mode = "return"
        THEN [span |-> OnReturn(s1),
              out |-> [kind |-> "returned", value |-> fn.value]]
        ELSE IF fn.mode = "throw"
        THEN [span |-> OnCatch(s1, fn.value),
              out |-> [kind |-> "thrown", value |-> fn.value]]
        ELSE [span |-> OnThenable(s1), out |-> [kind |-> "pending"]]

\* the promise fn returned settles: the then callback runs on fulfilment
\* only, a rejection passes through result.then(...) to the caller
PromiseSettled(fn, sp) ==
    LET s1 == FnAsync(sp, fn)
    IN  IF fn.mode = "resolve"
        THEN [span |-> OnFulfilled(s1),
              out |-> [kind |-> "fulfilled", value |-> fn.value]]
        ELSE [span |-> s1,
              out |-> [kind |-> "rejected", value |-> fn.value]]

HelperInit ==
    /\ BuilderInit
    /\ call \in {[entry |-> e, form |-> n, args |-> ActiveSpanArgs(n, w)] :
                  e \in Entries, n \in Forms, w \in Works}
    /\ hpc = "start"
    /\ hspan = NoCall
    /\ hout = NoOutcome
    /\ SetupOff
    /\ FnOff

\* the case of the switch on args.length: the handler wraps args[n - 1]
\* (counted from 0), the last argument
WrappedFn(c) == c.args[c.form]

\* the helper is called: the tracer starts the span and runs the handler
StartActiveSpan ==
    /\ hpc = "start"
    /\ LET res == CreateActiveSpanHandler(WrappedFn(call), StartedSpan)
       IN  /\ hspan' = res.span
           /\ hout' = res.out
           /\ hpc' = IF res.out.kind = "pending" THEN "pending" ELSE "done"
    /\ UNCHANGED <<call, builderVars, setupVars, fnVars>>

\* the promise of an asynchronous fn settles
Settle ==
    /\ hpc = "pending"
    /\ LET res == PromiseSettled(WrappedFn(call), hspan)
       IN  /\ hspan' = res.span
           /\ hout' = res.out
    /\ hpc' = "done"
    /\ UNCHANGED <<call, builderVars, setupVars, fnVars>>

HelperNext == StartActiveSpan \/ Settle

HelperSpec == HelperInit /\ [][HelperNext]_vars

\* ------------------------------------------------------------ plugin setup
\* opentelemetry(options) against the process-wide API state: api.provider is
\* the registered tracer provider ("none", "sdk", or "external" when tracing
\* was initialized elsewhere), api.contextManager the registered context
\* manager, api.getter whether the API object has the private method
\* _getContextManager, api.enabled the managers enable() succeeded on.
NoManager == "none"

Managers == {"cmA", "cmB"}

HelperOff ==
    call = NoCall /\ hpc = "off" /\ hspan = NoCall /\ hout = NoOutcome

\* trace.getTracer(serviceName): the API's proxy tracer as long as no tracer
\* provider is registered, the provider's tracer afterwards
GetTracer(a) == IF a.provider = "none" THEN "ProxyTracer" ELSE "Tracer"

\* a test that takes every tracer for the proxy
IsProxyTracerAlways(t) == TRUE

\* tracer instanceof ProxyTracer
IsProxyTracer(t) == t = "ProxyTracer"

\* new NodeSDK(...).start(): registers the SDK's tracer provider, and its
\* context manager unless a context manager is registered already
SdkStart(a) ==
    [a EXCEPT !.provider = "sdk",
              !.contextManager = IF @ = NoManager THEN "sdk" ELSE @,
              !.sdkStarts = @ + 1]

\* otelContext._getContextManager?.(): undefined when the API object has no
\* such method; otherwise the registered manager, or the API's no-op
\* manager when none is registered
GetContextManager(a) ==
    IF ~a.getter THEN "undefined"
    ELSE IF a.contextManager = NoManager THEN "noop"
    ELSE a.contextManager

Truthy(v) == v # "undefined"

\* !otelContext._getContextManager?.() && contextManager
InstallGuard(a, cm) == ~Truthy(GetContextManager(a)) /\ cm # NoManager

\* otelContext.setGlobalContextManager(cm): refused (and logged) when a
\* context manager is registered already
SetGlobalContextManager(a, cm) ==
    IF a.contextManager = NoManager
    THEN [a EXCEPT !.contextManager = cm]
    ELSE a

\* contextManager.enable() followed by setGlobalContextManager; throws: the
\* manager's enable() raises
Install(a, cm, throws) ==
    IF throws
    THEN [api |-> a, threw |-> TRUE]
    ELSE [api |-> SetGlobalContextManager(
                    [a EXCEPT !.enabled = @ \cup {cm}], cm),
          threw |-> FALSE]

\* the install without try / catch: the exception leaves opentelemetry()
TryInstallNoCatch(a, cm, throws) ==
    LET res == Install(a, cm, throws)
    IN  [api |-> res.api, attempted |-> TRUE, threw |-> res.threw,
         escaped |-> res.threw]

\* try { enable; setGlobalContextManager } catch { }
TryInstall(a, cm, throws) ==
    LET res == Install(a, cm, throws)
    IN  [api |-> res.api, attempted |-> TRUE, threw |-> res.threw,
         escaped |-> FALSE]

SetupInit ==
    /\ BuilderInit
    /\ HelperOff
    /\ FnOff
    /\ api \in [provider : {"none", "external"},
                 contextManager : {NoManager, "external"},
                 getter : BOOLEAN,
                 sdkStarts : {0},
                 enabled : {{}}]
    /\ setups = <<>>

\* opentelemetry({ contextManager: cm, ... }) is called; cm = NoManager: the
\* option is not given. The entry appended to setups records what the call
\* did: whether it saw the proxy tracer, whether the install was attempted
\* and threw, whether the plugin was returned, and the registered context
\* manager before the install step and after the call.
Opentelemetry(cm, throws) ==
    /\ api # NoCall
    /\ Len(setups) < MaxSetups
    /\ LET tracer == GetTracer(api)
           a1     == IF IsProxyTracer(tracer) THEN SdkStart(api) ELSE api
           res    == IF InstallGuard(a1, cm)
                     THEN TryInstall(a1, cm, throws)
                     ELSE [api |-> a1, attempted |-> FALSE,
                           threw |-> FALSE, escaped |-> FALSE]
       IN  /\ api' = res.api
           /\ setups' = Append(setups,
                [option |-> cm,
                 proxy |-> tracer = "ProxyTracer",
                 startedSdk |-> a1.sdkStarts > api.sdkStarts,
                 attempted |-> res.attempted,
                 threw |-> res.threw,
                 returned |-> ~res.escaped,
                 before |-> a1.contextManager,
                 after |-> res.api.contextManager,
                 enabled |-> cm \in res.api.enabled])
    /\ UNCHANGED <<builderVars, helperVars, fnVars>>

SetupNext ==
    \E cm \in Managers \cup {NoManager}, throws \in BOOLEAN :
        Opentelemetry(cm, throws)

SetupSpec == SetupInit /\ [][SetupNext]_vars

\* ------------------------------------------------ functions under study
\* The process-wide setAttributes, the response body harvest and the
\* content-length parse of onAfterResponse, each applied to an input drawn
\* in the initial state.

\* what the active context reports for the span key: no span, a recording
\* span, a span that has ended, or the non-recording span of a request that
\* is not sampled
CurrentSpans == {"undefined", "recording", "ended", "nonRecording"}

AttributeSets == {"none", "one", "two"}

\* getCurrentSpan(): otelContext.active()._currentContext?.get(contextKeySpan)
GetCurrentSpan(ctx) == IF ctx.map THEN ctx.span ELSE "undefined"

\* span.setAttributes(attributes): applied while the span records; the span
\* itself is returned in every case
SpanSetAttributesReturn(span, attrs) ==
    [value |-> span, applied |-> span = "recording" /\ attrs # "none"]

\* setAttributes(attributes): !!getCurrentSpan()?.setAttributes(attributes)
SetAttributesFn(ctx, attrs) ==
    LET span == GetCurrentSpan(ctx)
    IN  IF span = "undefined"
        THEN [kind |-> "setAttributes", returned |-> FALSE,
              applied |-> FALSE]
        ELSE LET res == SpanSetAttributesReturn(span, attrs)
             IN  [kind |-> "setAttributes",
                  returned |-> res.value # "undefined",
                  applied |-> res.applied]

SetAttributesInputs ==
    [fn : {"setAttributes"},
     ctx : [map : BOOLEAN, span : CurrentSpans],
     attrs : AttributeSets]

\* the values a handler leaves in context.response: undefined, null, a
\* Response, byte buffers of some size, plain objects (a sequence of
\* key / number entries), strings, numbers and booleans
ByteSizes == {0, 3, 10}

PlainObjects ==
    {<<>>, <<<<"a", 1>>>>, <<<<"a", 1>>, <<"b", 2>>>>, <<<<"id", 12>>>>}

Responses ==
    [type : {"undefined", "null", "Response"}]
    \cup [type : {"Uint8Array", "ArrayBuffer", "Blob"}, bytes : ByteSizes]
    \cup [type : {"object"}, entries : PlainObjects]
    \cup [type : {"string"}, text : {"", "ok", "hello"}]
    \cup [type : {"number"}, num : {0, 7, 42}]
    \cup [type : {"boolean"}, bool : BOOLEAN]

\* typeof response
TypeOf(v) ==
    IF v.type \in {"undefined", "string", "number", "boolean"}
    THEN v.type
    ELSE "object"

\* JSON.stringify of a plain object with number values
RECURSIVE JsonEntries(_)
JsonEntries(es) ==
    IF es = <<>> THEN ""
    ELSE "\"" \o es[1][1] \o "\":" \o ToString(es[1][2])
         \o (IF Len(es) > 1 THEN "," ELSE "") \o JsonEntries(Tail(es))

JsonStringify(v) ==
    IF v.type = "null" THEN "null"
    ELSE "{" \o JsonEntries(v.entries) \o "}"

\* response.toString() of a string, number or boolean
ToStringOf(v) ==
    IF v.type = "string" THEN v.text
    ELSE IF v.type = "number" THEN ToString(v.num)
    ELSE IF v.bool THEN "true" ELSE "false"

NoAttributes == [hasBody |-> FALSE, body |-> "", hasSize |-> FALSE, size |-> 0]

SizeOnly(n) == [NoAttributes EXCEPT !.hasSize = TRUE, !.size = n]

BodyAndSize(value) ==
    [hasBody |-> TRUE, body |-> value, hasSize |-> TRUE, size |-> Len(value)]

\* onAfterResponse: switch (typeof response), what it writes to
\* http.response.body and http.response.body.size
HarvestResponseBody(response) ==
    IF TypeOf(response) = "object"
    THEN IF response.type = "Response" THEN NoAttributes
         ELSE IF response.type \in {"Uint8Array", "ArrayBuffer", "Blob"}
         THEN SizeOnly(response.bytes)
         ELSE BodyAndSize(JsonStringify(response))
    ELSE IF response.type \in {"undefined", "null"}
         THEN SizeOnly(0)
         ELSE BodyAndSize(ToStringOf(response))

HarvestInputs == [fn : {"harvest"}, response : Responses]

\* content-length header values, as sequences of characters
Messages ==
    {<<>>, <<"0">>, <<"7">>, <<"1", "2", "3", "4", "5">>, <<"-", "5">>,
     <<"+", "7">>, <<"a", "b", "c">>, <<"1", "2", "a">>,
     <<"I", "n", "f", "i", "n", "i", "t", "y">>,
     <<"-", "I", "n", "f", "i", "n", "i", "t", "y">>, <<" ", "4", "2", " ">>,
     <<"-", "0">>, <<"0", "0", "7">>,
     <<"9", "9", "9", "9", "9", "9", "9", "9", "9", "9", "9", "9", "9", "9", "9">>,
     <<"-", "9", "9", "9", "9", "9", "9", "9", "9", "9", "9", "9", "9", "9", "9">>,
     <<"9", "0", "0", "7", "1", "9", "9", "2", "5", "4", "7", "4", "0", "9", "9", "1">>,
     <<"9", "0", "0", "7", "1", "9", "9", "2", "5", "4", "7", "4", "0", "9", "9", "2">>,
     <<"9", "0", "0", "7", "1", "9", "9", "2", "5", "4", "7", "4", "0", "9", "9", "3">>,
     <<"9", "0", "0", "7", "1", "9", "9", "2", "5", "4", "7", "4", "0", "9", "9", "5">>,
     <<"1", "2", "3", "4", "5", "6", "7", "8", "9", "0", "1", "2", "3", "4", "5", "6">>,
     <<"0", "0", "0", "0", "0", "0", "0", "0", "0", "0", "0", "0", "0", "0", "1", "6">>,
     <<"-", "1", "2", "3", "4", "5", "6", "7", "8", "9", "0", "1", "2", "3", "4", "5">>,
     <<" ", " ", " ", " ", " ", " ", " ", " ", " ", " ", " ", " ", " ", " ", " ", " ">>,
     <<"9", "9", "9", "9", "9", "9", "9", "9", "9", "9", "9", "9", "9", "9", "9", "9">>,
     <<"a", "b", "c", "d", "e", "f", "g", "h", "i", "j", "k", "l", "m", "n", "o", "p">>,
     <<"1", "2", "3", "4", "5", "6", "7", "8", "9", "0", "1", "2", "3", "4", "5", "6", "7">>,
     <<"9", "9", "9", "9", "9", "9", "9", "9", "9", "9", "9", "9", "9", "9", "9", "9", "9", "9", "9", "9">>}

\* a JavaScript number whose magnitude is an integer below 10^16, kept as
\* hi * 10^8 + lo; kind "nan" and "inf" for NaN and the infinities
Base == 100000000

Num(neg, hi, lo) == [kind |-> "num", neg |-> neg, hi |-> hi, lo |-> lo]

NaN == [kind |-> "nan", neg |-> FALSE, hi |-> 0, lo |-> 0]

Infinity(neg) == [kind |-> "inf", neg |-> neg, hi |-> 0, lo |-> 0]

Null == [kind |-> "null", neg |-> FALSE, hi |-> 0, lo |-> 0]

Digits == <<"0", "1", "2", "3", "4", "5", "6", "7", "8", "9">>

IsDigit(c) == \E d \in 1..10 : Digits[d] = c

DigitValue(c) == (CHOOSE d \in 1..10 : Digits[d] = c) - 1

\* String.prototype.trim for blanks
RECURSIVE TrimLeft(_)
TrimLeft(m) ==
    IF m # <<>> /\ Head(m) = " " THEN TrimLeft(Tail(m)) ELSE m

RECURSIVE TrimRight(_)
TrimRight(m) ==
    IF m # <<>> /\ m[Len(m)] = " "
    THEN TrimRight(SubSeq(m, 1, Len(m) - 1)) ELSE m

Trim(m) == TrimRight(TrimLeft(m))

\* the mathematical value of a digit string of at most 16 digits
RECURSIVE DecimalValue(_, _, _)
DecimalValue(ds, hi, lo) ==
    IF ds = <<>> THEN <<hi, lo>>
    ELSE LET x == lo * 10 + DigitValue(Head(ds))
         IN  DecimalValue(Tail(ds), hi * 10 + (x \div Base), x % Base)

\* 2^53 = 9007199254740992: up to it every integer is a double; from there
\* to 2^54 only the even ones are, an odd one is a tie that rounds to the
\* neighbour with an even significand (a multiple of 4)
RoundToDouble(hi, lo) ==
    IF hi < 90071992 \/ (hi = 90071992 /\ lo <= 54740992) \/ lo % 2 = 0
    THEN <<hi, lo>>
    ELSE IF (lo + 1) % 4 = 0
         THEN IF lo + 1 = Base THEN <<hi + 1, 0>> ELSE <<hi, lo + 1>>
         ELSE <<hi, lo - 1>>

\* Number(message) for blanks, a sign, decimal digits and Infinity; every
\* other text of Messages is not a numeric literal and gives NaN
NumberOf(message) ==
    LET t    == Trim(message)
        neg  == t # <<>> /\ Head(t) = "-"
        body == IF t # <<>> /\ Head(t) \in {"-", "+"} THEN Tail(t) ELSE t
    IN  IF t = <<>> THEN Num(FALSE, 0, 0)
        ELSE IF body = <<"I", "n", "f", "i", "n", "i", "t", "y">>
        THEN Infinity(neg)
        ELSE IF body = <<>> \/ \E i \in 1..Len(body) : ~IsDigit(body[i])
        THEN NaN
        ELSE LET v == DecimalValue(body, 0, 0)
                 d == RoundToDouble(v[1], v[2])
             IN  Num(neg, d[1], d[2])

\* the decimal digits of a natural number, and the same padded to 8 digits
RECURSIVE DigitsOf(_)
DigitsOf(k) ==
    IF k < 10 THEN <<Digits[k + 1]>>
    ELSE Append(DigitsOf(k \div 10), Digits[(k % 10) + 1])

RECURSIVE Pad8(_)
Pad8(ds) == IF Len(ds) < 8 THEN Pad8(<<"0">> \o ds) ELSE ds

\* number.toString()
NumberToString(n) ==
    IF n.kind = "nan" THEN <<"N", "a", "N">>
    ELSE IF n.kind = "inf"
    THEN (IF n.neg THEN <<"-">> ELSE <<>>)
         \o <<"I", "n", "f", "i", "n", "i", "t", "y">>
    ELSE IF n.hi = 0 /\ n.lo = 0 THEN <<"0">>
    ELSE (IF n.neg THEN <<"-">> ELSE <<>>)
         \o (IF n.hi = 0 THEN DigitsOf(n.lo)
             ELSE DigitsOf(n.hi) \o Pad8(DigitsOf(n.lo)))

\* parseNumericString(message)
ParseNumericString(message) ==
    IF Len(message) < 16
    THEN IF Len(message) = 0 THEN Null
         ELSE IF NumberOf(message).kind = "nan" THEN Null
         ELSE NumberOf(message)
    ELSE IF Len(message) = 16
    THEN LET number == NumberOf(message)
         IN  IF \/ NumberToString(number) # message
                \/ Len(Trim(message)) = 0
                \/ number.kind = "nan"
             THEN Null
             ELSE number
    ELSE Null

\* if (number): null, NaN and zero are falsy
TruthyNumber(n) ==
    n.kind = "inf" \/ (n.kind = "num" /\ (n.hi # 0 \/ n.lo # 0))

\* onAfterResponse: the content-length header into
\* http.request_content_length
ContentLengthAttribute(contentLength) ==
    IF contentLength = <<>>
    THEN [set |-> FALSE, value |-> Null]
    ELSE LET number == ParseNumericString(contentLength)
         IN  IF TruthyNumber(number)
             THEN [set |-> TRUE, value |-> number]
             ELSE [set |-> FALSE, value |-> Null]

ContentLengthInputs == [fn : {"contentLength"}, header : Messages]

\* ---- createContext(parent): the object handed to the tracer as context
\* the context otelContext.active() reports: its identity and its span entry
ActiveContexts ==
    [id : {"ROOT_CONTEXT", "bound"}, span : {"undefined", "rootSpan"}]

NoContext == [id |-> "none", span |-> "undefined"]

\* createContext(parent)
CreateContext(p) == [parent |-> p]

\* getValue() { return parent }
CarrierGetValue(c, key) == c.parent

\* a setValue that behaves like the one of a real context: a copy of the
\* active context with the value stored
CarrierSetValueStores(c, key, value, act) ==
    [id |-> "copy", span |-> IF key = "SPAN_KEY" THEN value ELSE act.span]

\* setValue() { return otelContext.active() }
CarrierSetValue(c, key, value, act) == act

\* deleteValue() { return otelContext.active() }
CarrierDeleteValue(c, key, act) == act

\* trace.getSpan(ctx): ctx.getValue(SPAN_KEY)
TraceGetSpan(c) == CarrierGetValue(c, "SPAN_KEY")

\* one call on a carrier while act is the active context. returned: what the
\* call returns; spanParent: the parent of the span a tracer call starts;
\* during: the context that is active while the callback of startActiveSpan
\* runs (the tracer runs it under trace.setSpan(ctx, span)); carrier, active:
\* the carrier and the active context after the call
CarrierCall(op, p, key, act) ==
    LET c == CreateContext(p)
        base == [kind |-> "carrier", returnedSpan |-> "undefined",
                 returnedContext |-> NoContext, spanParent |-> "undefined",
                 during |-> act, carrier |-> c, active |-> act]
    IN  CASE op = "getValue" ->
               [base EXCEPT !.returnedSpan = CarrierGetValue(c, key)]
          [] op = "setValue" ->
               [base EXCEPT !.returnedContext =
                              CarrierSetValue(c, key, "newSpan", act)]
          [] op = "deleteValue" ->
               [base EXCEPT !.returnedContext =
                              CarrierDeleteValue(c, key, act)]
          [] op = "startSpan" ->
               [base EXCEPT !.returnedSpan = "newSpan",
                            !.spanParent = TraceGetSpan(c)]
          [] op = "startActiveSpan" ->
               [base EXCEPT !.returnedSpan = "newSpan",
                            !.spanParent = TraceGetSpan(c),
                            !.during = CarrierSetValue(c, "SPAN_KEY",
                                                       "newSpan", act)]

\* the method called or the tracer call made, the span the carrier is
\* created for, the key asked for (the span key of the API or any other),
\* and the active context
CarrierInputs ==
    [fn : {"carrier"},
     op : {"getValue", "setValue", "deleteValue", "startSpan",
           "startActiveSpan"},
     parent : {"rootSpan", "phaseSpan"},
     key : {"SPAN_KEY", "OTHER_KEY"},
     active : ActiveContexts]

FnInputs ==
    SetAttributesInputs \cup HarvestInputs \cup ContentLengthInputs
      \cup CarrierInputs

FnInit ==
    /\ BuilderInit
    /\ HelperOff
    /\ SetupOff
    /\ arg \in FnInputs
    /\ ret = NoOutcome

\* user code calls the process-wide setAttributes
SetAttributes ==
    /\ arg # NoCall
    /\ arg.fn = "setAttributes"
    /\ ret = NoOutcome
    /\ ret' = SetAttributesFn(arg.ctx, arg.attrs)
    /\ UNCHANGED <<arg, builderVars, helperVars, setupVars>>

\* onAfterResponse harvests the response body
HarvestResponse ==
    /\ arg # NoCall
    /\ arg.fn = "harvest"
    /\ ret = NoOutcome
    /\ ret' = [kind |-> "harvest",
               attributes |-> HarvestResponseBody(arg.response)]
    /\ UNCHANGED <<arg, builderVars, helperVars, setupVars>>

\* onAfterResponse reads the content-length header of the request
ContentLength ==
    /\ arg # NoCall
    /\ arg.fn = "contentLength"
    /\ ret = NoOutcome
    /\ ret' = [kind |-> "contentLength",
               attribute |-> ContentLengthAttribute(arg.header)]
    /\ UNCHANGED <<arg, builderVars, helperVars, setupVars>>

\* the tracer or the builder uses a carrier made by createContext
Carrier ==
    /\ arg # NoCall
    /\ arg.fn = "carrier"
    /\ ret = NoOutcome
    /\ ret' = CarrierCall(arg.op, arg.parent, arg.key, arg.active)
    /\ UNCHANGED <<arg, builderVars, helperVars, setupVars>>

FnNext ==
    \/ SetAttributes
    \/ HarvestResponse
    \/ ContentLength
    \/ Carrier

FnSpec == FnInit /\ [][FnNext]_vars

\* ------------------------------------------------------------- vocabulary
Traced(r) == pc[r] \notin {"idle", "untraced"}

InFlight(r) == pc[r] \in {"ready", "inPhase", "inChild", "inHandle"}

Root(r) == spans[r][1]

SpanIx(r) == 1..Len(spans[r])

\* the spans of r the trace handler started (not the ones user code started)
BuilderIx(r) == {k \in SpanIx(r) : spans[r][k].kind # "user"}

KindIx(r, kind) == {k \in SpanIx(r) : spans[r][k].kind = kind}

\* trace.getActiveSpan() / getCurrentSpan() evaluated by the code of r
Observed(r) == ctxSpan[active[r]]

\* what only the framework's signals for r change
Own(r) == <<pc[r], pos[r], responded[r]>>

RECURSIVE DescendsFrom(_, _, _)
DescendsFrom(S, ref, top) ==
    IF ref = top THEN TRUE
    ELSE IF ref[1] = 0 THEN FALSE
    ELSE DescendsFrom(S, SpanAt(S, ref).parent, top)

\* ------------------------------------------------------------------ claims
\* C1: requests handled concurrently and carrying no traceparent header have
\* root spans with pairwise distinct trace IDs.
C1_DistinctTraceIds ==
    \A a, b \in Reqs :
        (a # b /\ Traced(a) /\ Traced(b)
           /\ header[a] = NoHeader /\ header[b] = NoHeader)
        => Root(a).traceId # Root(b).traceId

\* every request is suspended at an await point at the same time
C1_Witness ==
    \A r \in Reqs : Suspended(r) /\ header[r] = NoHeader

C3_Isolation ==
    [][\A b \in Reqs :
         Traced(b)' =>
           /\ Observed(b)'[1] = b
           /\ parent'[b][1] = b
           /\ (Traced(b) /\ Own(b)' = Own(b))
                => (Observed(b)' = Observed(b) /\ parent'[b] = parent[b])]_vars

\* two requests in flight, each past a setParent, each observing its own span
C3_Witness ==
    \E a, b \in Reqs :
        /\ a # b
        /\ Suspended(a) /\ Suspended(b)
        /\ parent[a] # rootSpan[a] /\ parent[b] # rootSpan[b]
        /\ Observed(a) = parent[a] /\ Observed(b) = parent[b]

\* C4: a request with a valid traceparent header gets a root span with the
\* header's trace ID, a request without one gets a fresh trace ID.
C4_TraceparentHonoured ==
    \A r \in Reqs :
        Traced(r) =>
          IF header[r] = NoHeader
          THEN Root(r).parent = NoSpan
          ELSE Root(r).traceId = header[r]

\* C5: one root span per request; every phase, sub-event and handle span of
\* the request descends from it and carries its trace ID.
C5_OneRootOneTree ==
    \A r \in Reqs :
        Traced(r) =>
          /\ KindIx(r, "root") = {1}
          /\ rootSpan[r] = Ref(r, 1)
          /\ \A k \in BuilderIx(r) :
               /\ DescendsFrom(spans, Ref(r, k), Ref(r, 1))
               /\ spans[r][k].traceId = Root(r).traceId

\* a request whose tree holds a phase span, a sub-event span and a handle span
C5_Witness ==
    \E r \in Reqs :
        /\ KindIx(r, "phase") # {}
        /\ KindIx(r, "sub") # {}
        /\ KindIx(r, "handle") # {}

\* C6: the builder calls end on each span at most once and never mutates or
\* ends a span that has already ended.
C6_EndedAtMostOnce ==
    \A r \in Reqs : \A k \in SpanIx(r) :
        spans[r][k].ends <= 1 /\ ~spans[r][k].late

\* C7: once the stop callbacks of a phase, sub-event or handler have fired
\* the span is ended, on success, error and skip alike; after the
\* afterResponse stop no span of the request is open.
C7_EndedOnEveryPath ==
    \A r \in Reqs :
        /\ pc[r] \in {"ready", "closed"}
             => \A k \in BuilderIx(r) : k > 1 => ~spans[r][k].recording
        /\ pc[r] = "inPhase"
             => \A k \in KindIx(r, "sub") \cup KindIx(r, "handle") :
                  ~spans[r][k].recording
        /\ pc[r] = "closed" => ~Root(r).recording

\* a closed request that went through a phase with a sub-event that stopped
\* with an error
C7_Witness ==
    \E r \in Reqs :
        /\ pc[r] = "closed"
        /\ \E k \in KindIx(r, "sub") : spans[r][k].status = Error
        /\ \E k \in KindIx(r, "phase") : spans[r][k].ends = 1

\* C8: when the handler throws, the handle span records the exception, has
\* status ERROR and is ended, the root span's status is ERROR, and the root
\* span is ended when afterResponse has stopped.
C8_HandlerThrows ==
    \A r \in Reqs :
        handled[r] = "threw" =>
          /\ \A k \in KindIx(r, "handle") :
               /\ spans[r][k].exception
               /\ spans[r][k].status = Error
               /\ ~spans[r][k].recording
          /\ Root(r).status = Error
          /\ pc[r] = "closed" => ~Root(r).recording

\* C9 as stated: when the handler succeeded and the response is returned,
\* root and handle span have status OK and are both ended.
C9_Original ==
    \A r \in Reqs :
        (handled[r] = "ok" /\ responded[r]) =>
          /\ Root(r).status = Ok /\ ~Root(r).recording
          /\ \A k \in KindIx(r, "handle") :
               spans[r][k].status = Ok /\ ~spans[r][k].recording

\* C9 amended: when the handler succeeded, the handle span has status OK and
\* is ended from the handler's stop on (so when the response is returned),
\* the root span has status OK right after that stop, is still recording
\* when the response is returned and is ended once afterResponse has stopped.
C9_HandlerSucceeds ==
    \A r \in Reqs :
        handled[r] = "ok" =>
          /\ KindIx(r, "handle") # {}
          /\ \A k \in KindIx(r, "handle") :
               spans[r][k].status = Ok /\ ~spans[r][k].recording
          /\ (pc[r] = "ready" /\ pos[r] = HandleIx) => Root(r).status = Ok
          /\ (responded[r] /\ pc[r] # "closed") => Root(r).recording
          /\ pc[r] = "closed" => ~Root(r).recording

\* the handler succeeded, the response was returned, afterResponse stopped
C9_Witness ==
    \E r \in Reqs :
        handled[r] = "ok" /\ responded[r] /\ pc[r] = "closed"

\* a phase of r reports zero sub-events, or stops after having reported zero
ZeroBegin(r) == PhaseBegin(r, 0) \/ AfterResponseBegin(r, 0)

ZeroStop(r) == AfterResponseStop(r) /\ total[r] = 0

\* C10 as stated: a phase that reports zero sub-events starts no span and
\* leaves the parent pointer unchanged, afterResponse included.
C10_Original ==
    [][\A r \in Reqs :
         (ZeroBegin(r) \/ ZeroStop(r))
         => (Len(spans'[r]) = Len(spans[r]) /\ parent'[r] = parent[r])]_vars

\* C10 amended: the begin of a phase with zero sub-events starts no span and
\* leaves the parent pointer and the current span unchanged; the stop of an
\* afterResponse with zero sub-events starts no span either and resets the
\* pointer to the root span.
C10_ZeroSubEvents ==
    [][\A r \in Reqs :
         /\ ZeroBegin(r)
              => /\ Len(spans'[r]) = Len(spans[r])
                 /\ parent'[r] = parent[r]
                 /\ Observed(r)' = Observed(r)
         /\ ZeroStop(r)
              => /\ Len(spans'[r]) = Len(spans[r])
                 /\ parent'[r] = rootSpan[r]]_vars

\* request, parse, transform and beforeHandle were reported without
\* sub-events: the handler runs and the tree holds the root and handle span
C10_Witness ==
    \E r \in Reqs :
        /\ pc[r] = "inHandle"
        /\ Len(spans[r]) = 2
        /\ work = 0

\* C11: the root span is ended by the stop of afterResponse and by nothing
\* else: in every state before that stop, on the error paths too, the root
\* span is still recording and end was never called on it.
C11_RootEndedLast ==
    \A r \in Reqs :
        (Traced(r) /\ pc[r] # "closed")
        => (Root(r).recording /\ Root(r).ends = 0)

\* a request on the error path, a sub-event having stopped with an error and
\* the error response returned, afterResponse not yet stopped
C11_Witness ==
    \E r \in Reqs :
        /\ failed[r] /\ responded[r] /\ pc[r] # "closed"
        /\ \E k \in KindIx(r, "sub") : spans[r][k].status = Error

\* C12: every sub-event span lies strictly inside the open/close interval of
\* its phase span: it is started while the phase span is open and ended
\* before the phase span is ended, also when the sub-event stops with an
\* error.
C12_SubEventNested ==
    \A r \in Reqs : \A k \in KindIx(r, "sub") :
        /\ ~spans[r][k].orphan
        /\ ~spans[r][k].outlived
        /\ spans[r][k].recording => ~Closed(spans, spans[r][k].parent)

\* a beforeHandle hook, the route handler or an onError hook of r is running
UserCodeRuns(r) ==
    \/ pc[r] = "inHandle"
    \/ pc[r] = "inChild" /\ Phases[pos[r]] \in {"beforeHandle", "error"}

\* C13: while a beforeHandle hook, the route handler or an onError hook of a
\* request runs, the current span of the request is the span the parent
\* pointer refers to, a span of the request's own tree, and it is recording.
C13_CurrentSpanRecording ==
    \A r \in Reqs :
        UserCodeRuns(r)
        => /\ Observed(r) = parent[r]
           /\ Observed(r)[1] = r
           /\ SpanAt(spans, Observed(r)).recording

\* the handler runs after a beforeHandle hook whose span has ended
C13_Witness ==
    \E r \in Reqs :
        /\ pc[r] = "inHandle"
        /\ \E k \in KindIx(r, "sub") : ~spans[r][k].recording

\* user code of r starts a span through the request-scoped API
StartsUserSpan(r) ==
    \/ TraceStartSpan(r)
    \/ \E n \in Forms : \E c \in CallerContexts(r) :
         TraceStartActiveSpan(r, n, c)

\* C14 as stated: startSpan, startActiveSpan in its 2-, 3- and 4-argument
\* forms and setAttributes all work relative to the parent pointer: a span
\* they start is a child of the pointer's span at the call, and setAttributes
\* writes to the pointer's span.
C14_Original ==
    [][\A r \in Reqs :
         /\ StartsUserSpan(r) => SpanAt(spans', LastRef(spans', r)).parent
                                    = parent[r]
         /\ TraceSetAttributes(r) => SpanAt(spans', parent[r]).attrs]_vars

\* C14 amended: startSpan and the 2- and 3-argument forms of startActiveSpan
\* start a child of the pointer's span at the call; the 4-argument form
\* starts a child of the span of the context the caller passes; setAttributes
\* writes to the root span of the request and to no other span.
C14_RequestScopedApi ==
    [][\A r \in Reqs :
         /\ TraceStartSpan(r)
              => SpanAt(spans', LastRef(spans', r)).parent = parent[r]
         /\ \A n \in Forms : \A c \in CallerContexts(r) :
              TraceStartActiveSpan(r, n, c)
              => SpanAt(spans', LastRef(spans', r)).parent
                   = IF n = 4 THEN ctxSpan[c] ELSE parent[r]
         /\ TraceSetAttributes(r)
              => /\ Root(r)'.attrs
                 /\ \A k \in SpanIx(r) \ {1} :
                      spans'[r][k].attrs = spans[r][k].attrs]_vars

\* the handler or a hook wrote attributes while the pointer was not the root
\* span, or started a span under ROOT_CONTEXT through the 4-argument form
C14_Witness ==
    \E r \in Reqs :
        /\ Suspended(r)
        /\ parent[r] # rootSpan[r]
        /\ \/ Root(r).attrs
           \/ \E k \in KindIx(r, "user") : spans[r][k].parent = NoSpan

\* the helper call under study has completed: it returned or threw, or the
\* promise it returned has settled
Completed(mode) ==
    hpc = "done" /\ WrappedFn(call).mode = mode

\* fn ended the span itself: never, "early" or "late"
SelfEnd == WrappedFn(call).selfEnd

\* C15: when fn returns a value that is no thenable, without throwing and
\* with the span still recording, the helper ends the span (once, setting
\* no status) and returns fn's result unchanged.
C15_SyncSuccess ==
    (Completed("return") /\ SelfEnd = "never")
    => /\ ~hspan.recording /\ hspan.ends = 1 /\ ~hspan.late
       /\ hspan.status = Unset /\ hspan.exception = ""
       /\ hout = [kind |-> "returned", value |-> WrappedFn(call).value]

\* context.trace.startActiveSpan in its 4-argument form with a synchronous
\* fn has returned
C15_Witness ==
    /\ Completed("return") /\ SelfEnd = "never"
    /\ call.entry = "context.trace" /\ call.form = 4
    /\ hout.kind = "returned"

\* C16: when fn returns a thenable the span is not ended before it resolves;
\* after the resolution the span is ended and the resolved value reaches the
\* caller unchanged; a rejection reaches the caller unchanged.
C16_AsyncWork ==
    /\ (hpc = "pending" /\ SelfEnd = "never")
         => (hspan.recording /\ hspan.ends = 0 /\ hout.kind = "pending")
    /\ Completed("resolve")
         => /\ ~hspan.recording
            /\ SelfEnd = "never" => hspan.ends = 1
            /\ hout = [kind |-> "fulfilled",
                       value |-> WrappedFn(call).value]
    /\ Completed("reject")
         => hout = [kind |-> "rejected", value |-> WrappedFn(call).value]

\* record(name, fn) with an asynchronous fn: the promise was fulfilled
C16_Witness ==
    /\ Completed("resolve") /\ SelfEnd = "never"
    /\ call.entry = "record" /\ call.form = 2
    /\ hout.kind = "fulfilled"

\* C17: when fn throws and the span is still recording, the exception is
\* recorded on the span, the status is ERROR with the exception's message,
\* the span is ended and the very same error is re-thrown.
C17_SyncThrow ==
    (Completed("throw") /\ SelfEnd = "never")
    => /\ hspan.exception = WrappedFn(call).value
       /\ hspan.status = Error
       /\ hspan.message = Message(WrappedFn(call).value)
       /\ ~hspan.recording /\ hspan.ends = 1 /\ ~hspan.late
       /\ hout = [kind |-> "thrown", value |-> WrappedFn(call).value]

\* getTracer().startActiveSpan(name, options, fn) with an fn that threw
C17_Witness ==
    /\ Completed("throw") /\ SelfEnd = "never"
    /\ call.entry = "getTracer" /\ call.form = 3
    /\ hout.kind = "thrown"

\* C18: every span started through startActiveSpan / record,
\* getTracer().startActiveSpan or context.trace.startActiveSpan is ended
\* once the call has completed, whether fn returned or failed, synchronously
\* or asynchronously.
C18_AlwaysEnded ==
    hpc = "done" => ~hspan.recording

\* C19: when fn itself ended the span (before returning, before its promise
\* settles or before throwing) the helper calls end no further time, sets no
\* status, records no exception, and still returns the result or re-throws
\* the original error.
C19_EndedSpanUntouched ==
    (hpc \in {"pending", "done"} /\ SelfEnd # "never")
    => /\ hspan.ends <= 1 /\ ~hspan.late
       /\ hspan.status = Unset /\ hspan.message = ""
       /\ hspan.exception = ""
       /\ hpc = "done" =>
            /\ hspan.ends = 1
            /\ hout.value = WrappedFn(call).value
            /\ hout.kind =
                 CASE WrappedFn(call).mode = "return" -> "returned"
                   [] WrappedFn(call).mode = "throw" -> "thrown"
                   [] WrappedFn(call).mode = "resolve" -> "fulfilled"
                   [] WrappedFn(call).mode = "reject" -> "rejected"

\* fn ended the span and then threw: the error reached the caller
C19_Witness ==
    /\ Completed("throw") /\ SelfEnd = "early"
    /\ hspan.ends = 1
    /\ hout.kind = "thrown"

\* C21: when the trace handler runs for a request without a root span it
\* does nothing: no span is started, no listener is registered (no later
\* signal of the request reaches the builder) and the request's pointer and
\* the contexts stay as they were.
C21_NoRootNoAction ==
    \A r \in Reqs :
        (r <= entered /\ rootSpan[r] = NoSpan)
        => /\ pc[r] = "untraced"
           /\ spans[r] = <<>>
           /\ parent[r] = NoSpan
           /\ pos[r] = 0 /\ total[r] = 0 /\ cur[r] = 0
           /\ ctxSpan[RootContext] = NoSpan

\* a request went by without a root span while another was being traced
C21_Witness ==
    \E r, o \in Reqs :
        /\ pc[r] = "untraced"
        /\ Traced(o) /\ Len(spans[o]) > 1

\* C22: when the contextManager option is given, that context manager is
\* enabled and is the registered global context manager after setup.
C22_ContextManagerInstalled ==
    \A i \in 1..Len(setups) :
        setups[i].option # NoManager
        => (setups[i].enabled /\ setups[i].after = setups[i].option)

\* C23: when enabling the given context manager throws, or its installation
\* is refused, opentelemetry() still returns the plugin and the context
\* manager registered before the attempt is still the registered one.
C23_InstallFailureCaught ==
    \A i \in 1..Len(setups) :
        (setups[i].attempted
           /\ (setups[i].threw \/ setups[i].before # NoManager))
        => /\ setups[i].returned
           /\ setups[i].after = setups[i].before

\* an opentelemetry() call whose contextManager.enable() threw
C23_Witness ==
    \E i \in 1..Len(setups) :
        /\ setups[i].attempted /\ setups[i].threw
        /\ setups[i].returned

\* C24: opentelemetry() starts an SDK exactly when the tracer it obtained is
\* the uninitialized proxy and reuses the existing tracer otherwise, so the
\* SDK is started at most once in a process, and never when tracing was
\* initialized elsewhere.
C24_SdkStartedAtMostOnce ==
    /\ api # NoCall => api.sdkStarts <= 1
    /\ \A i \in 1..Len(setups) :
         /\ setups[i].startedSdk = setups[i].proxy
         /\ i > 1 => ~setups[i].startedSdk

\* two opentelemetry() calls in a process that started uninitialized
C24_Witness ==
    /\ Len(setups) = 2
    /\ setups[1].startedSdk
    /\ api.sdkStarts = 1

\* C25: the process-wide setAttributes returns true exactly when the
\* attributes were set on the current span, false otherwise.
C25_SetAttributesReturn ==
    (ret.kind = "setAttributes" /\ arg.attrs # "none")
    => (ret.returned <=> ret.applied)

\* C26: a byte-buffer response records only the body size; any other
\* object-shaped response records its serialized string as the body and the
\* string's length as the size ({a: 1} gives "{\"a\":1}" and 7); a string or
\* primitive is stringified and measured the same way; null and undefined
\* record size 0 and no body.
C26_ResponseBodyHarvest ==
    ret.kind = "harvest" =>
      LET v == arg.response
          a == ret.attributes
      IN  /\ v.type \in {"Uint8Array", "ArrayBuffer", "Blob"}
               => (~a.hasBody /\ a.hasSize /\ a.size = v.bytes)
          /\ v.type \in {"object", "Response"}
               => (a.hasBody /\ a.hasSize /\ a.size = Len(a.body))
          /\ (v.type = "object" /\ v.entries = <<<<"a", 1>>>>)
               => (a.body = "{\"a\":1}" /\ a.size = 7)
          /\ v.type \in {"string", "number", "boolean"}
               => (a.hasBody /\ a.hasSize /\ a.size = Len(a.body))
          /\ v.type = "string" => a.body = v.text
          /\ v.type \in {"null", "undefined"}
               => (~a.hasBody /\ a.hasSize /\ a.size = 0)

\* C27: http.request_content_length is set only if the content-length
\* header parses to a finite, non-negative number without loss of precision:
\* "12345" gives 12345; a non-numeric, negative or non-finite value, or a
\* string of 16 or more digits that does not round-trip, gives no attribute.
C27_ContentLengthParsed ==
    ret.kind = "contentLength" =>
      LET m == arg.header
          a == ret.attribute
      IN  /\ a.set => /\ a.value.kind = "num"
                      /\ ~a.value.neg
                      /\ <<a.value.hi, a.value.lo>>
                           = DecimalValue(
                               IF Head(Trim(m)) \in {"-", "+"}
                               THEN Tail(Trim(m)) ELSE Trim(m), 0, 0)
          /\ m = <<"1", "2", "3", "4", "5">>
               => (a.set /\ a.value = Num(FALSE, 0, 12345))
          /\ (\/ Len(m) > 16
              \/ (Len(m) = 16 /\ NumberToString(NumberOf(m)) # m)) => ~a.set

\* the phase span a sub-event span at position k of request r belongs to:
\* the last phase span started before it
PhaseSpanBefore(r, k) ==
    LET before == {j \in 1..(k - 1) : spans[r][j].kind = "phase"}
    IN  IF before = {} THEN NoSpan
        ELSE Ref(r, CHOOSE j \in before : \A i \in before : i <= j)

\* C28: every phase span and the handle span has the root span as direct
\* parent, and every sub-event span has its own phase span as direct parent,
\* whatever the parent pointer refers to when the span is started.
C28_BuilderSpanParents ==
    \A r \in Reqs : \A k \in 1..Len(spans[r]) :
        /\ spans[r][k].kind \in {"phase", "handle"}
             => spans[r][k].parent = rootSpan[r]
        /\ spans[r][k].kind = "sub"
             => /\ spans[r][k].parent # NoSpan
                /\ spans[r][k].parent = PhaseSpanBefore(r, k)

\* a sub-event span inside a phase that began after the handle span had
\* moved the parent pointer away from the root span
C28_Witness ==
    \E r \in Reqs : \E h, j, k \in 1..Len(spans[r]) :
        /\ h < j /\ j < k
        /\ spans[r][h].kind = "handle"
        /\ spans[r][j].kind = "phase"
        /\ spans[r][k].kind = "sub"
        /\ spans[r][k].parent = Ref(r, j)
        /\ parent[r] # rootSpan[r]

\* C29: a request never has more than one handle span and has exactly one
\* once its handler is entered; while the handler body runs that span is
\* recording, a direct child of the root span, and the parent pointer and the
\* current span of the request refer to it.
C29_HandleSpan ==
    \A r \in Reqs :
        /\ Cardinality(KindIx(r, "handle")) <= 1
        /\ (pc[r] = "inHandle" \/ handled[r] # "none")
             => Cardinality(KindIx(r, "handle")) = 1
        /\ pc[r] = "inHandle"
             => /\ KindIx(r, "handle") = {cur[r]}
                /\ spans[r][cur[r]].parent = rootSpan[r]
                /\ spans[r][cur[r]].recording
                /\ parent[r] = Ref(r, cur[r])
                /\ Observed(r) = Ref(r, cur[r])

\* the handler body runs after a hook of an earlier phase had moved the
\* parent pointer to its sub-event span
C29_Witness ==
    \E r \in Reqs :
        /\ pc[r] = "inHandle"
        /\ spans[r][cur[r]].kind = "handle"
        /\ \E k \in KindIx(r, "sub") : k < cur[r]
        /\ parent[r] \notin {rootSpan[r], NoSpan}

\* what a sub-event stop of r leaves behind: the sub-event span, recording
\* until then, has status st and is ended by this one end call, it carries
\* error.type and error.stack exactly on the error path, and the root span
\* has status st as well. setStatus is ignored by a span that has ended:
\* when a hook of afterResponse throws, the phase's stop ends the root span
\* before the sub-event's stop runs, and the root span keeps its status
StopEffect(r, st) ==
    LET k == cur[r]
    IN  /\ spans[r][k].kind = "sub"
        /\ spans[r][k].recording
        /\ spans'[r][k].status = st
        /\ spans'[r][k].errorAttrs = (st = Error)
        /\ ~spans'[r][k].recording
        /\ spans'[r][k].ends = 1
        /\ SpanAt(spans', rootSpan[r]).status
             = IF SpanAt(spans', rootSpan[r]).recording THEN st
               ELSE SpanAt(spans, rootSpan[r]).status
        /\ SpanAt(spans', rootSpan[r]).recording
             \/ (pos[r] = AfterResponseIx /\ st = Error)

PointerIx(r) == KindIx(r, "sub") \cup KindIx(r, "handle")

\* C31: the parent pointer of a request is the root span until a sub-event
\* or handle span is started, from then on the most recently started such
\* span, the root span again once afterResponse has stopped, and at every
\* moment a span of that request's own tree.
C31_ParentPointer ==
    \A r \in Reqs :
        Traced(r)
        => /\ parent[r][1] = r
           /\ DescendsFrom(spans, parent[r], rootSpan[r])
           /\ parent[r] = IF pc[r] = "closed" \/ PointerIx(r) = {}
                          THEN rootSpan[r]
                          ELSE Ref(r, CHOOSE k \in PointerIx(r) :
                                        \A j \in PointerIx(r) : j <= k)

\* afterResponse has stopped for a request whose pointer had moved to the
\* handle span: the pointer is the root span again
C31_Witness ==
    \E r \in Reqs :
        /\ pc[r] = "closed"
        /\ KindIx(r, "handle") # {}
        /\ parent[r] = rootSpan[r]

\* C32: the attribute map is flushed to the root span exactly once per
\* request, by onAfterResponse, as one bulk write that holds the seed keys
\* and the harvested keys and precedes the root span's end; a root span that
\* has ended is named "<method> <route or, without a route, path>".
C32_HarvestOnceThenEnd ==
    \A r \in Reqs :
        Traced(r)
        => /\ Root(r).flushes = IF pos[r] = AfterResponseIx THEN 1 ELSE 0
           /\ Root(r).flushes = 1
                => Root(r).flushed
                     = SeedAttributes \cup HarvestedAttributes(r)
           /\ ~Root(r).recording
                => /\ Root(r).flushes = 1
                   /\ Root(r).name = Method(r) \o " " \o RouteOrPath(r)
                   /\ Root(r).name
                        = IF Route(r) = "" THEN "GET /missing"
                          ELSE "GET /item/:id"

\* a request without a route and a request with one have both ended
C32_Witness ==
    \E r, o \in Reqs :
        /\ Route(r) = "" /\ Route(o) # ""
        /\ pc[r] = "closed" /\ pc[o] = "closed"
        /\ "http.route" \in Root(o).flushed
        /\ "http.route" \notin Root(r).flushed

\* C33: getValue of the carrier createContext(parent) returns parent for
\* every key; setValue and deleteValue return the active context; no call
\* changes the carrier or the active context; a span started with the
\* carrier as parent context is a child of parent, and the context that is
\* active while the callback of startActiveSpan runs is the one that was
\* active before, so nothing new is put on the context stack.
C33_CarrierFrame ==
    ret.kind = "carrier" =>
        /\ arg.op = "getValue" => ret.returnedSpan = arg.parent
        /\ arg.op \in {"setValue", "deleteValue"}
             => ret.returnedContext = arg.active
        /\ ret.carrier = CreateContext(arg.parent)
        /\ ret.active = arg.active
        /\ ret.during = arg.active
        /\ arg.op \in {"startSpan", "startActiveSpan"}
             => ret.spanParent = arg.parent

\* a span was started as active span under a carrier of the phase span while
\* the active context held the root span
C33_Witness ==
    /\ ret.kind = "carrier"
    /\ arg.op = "startActiveSpan"
    /\ arg.parent = "phaseSpan"
    /\ arg.active = [id |-> "bound", span |-> "rootSpan"]
    /\ ret.returnedSpan = "newSpan"

\* C34: if a sub-event or the handler of a request stopped with an error,
\* the root span that has ended has status ERROR.
C34_RootErrorSticks ==
    \A r \in Reqs :
        (/\ Traced(r)
         /\ ~Root(r).recording
         /\ \E k \in PointerIx(r) : spans[r][k].status = Error)
        => Root(r).status = Error

C36_ParentOpenAtStart ==
    \A r \in Reqs : \A k \in SpanIx(r) : ~spans[r][k].orphan

\* C37: after every setParent(span) of a request, getCurrentSpan() and
\* trace.getActiveSpan() evaluated in the request's context return that
\* span, the one the parent pointer refers to: the process-wide helpers and
\* the request-scoped API agree on the parent.
C37_HelpersAgree ==
    \A r \in Reqs :
        Traced(r)
        => /\ Observed(r) = parent[r]
           /\ ContextActive(active[r]).span = parent[r]
           /\ pc[r] \in {"inChild", "inHandle"}
                => Observed(r) = Ref(r, cur[r])

\* the second hook of a phase runs: setParent has moved the pointer from the
\* first sub-event span to the second
C37_Witness ==
    \E r \in Reqs :
        /\ pc[r] = "inChild"
        /\ begun[r] = 2
        /\ ContextActive(active[r]).span = Ref(r, cur[r])
        /\ spans[r][cur[r]].kind = "sub"

====
